---- MODULE Spec2Model ----
(***************************************************************************)
(* Model of the magnet-link parser of src/src/lib.rs: MagnetUri::from_str  *)
(* (scheme gate, query decoder, field classification), Field::new,         *)
(* Topic::from_str and the MagnetUri::topic accessor.                      *)
(*                                                                         *)
(* A Rust string is modelled as the sequence of its characters, each a     *)
(* one-character TLA+ string, so that prefix tests, splitting and decoding *)
(* are computed character by character as the code computes them.          *)
(***************************************************************************)
EXTENDS Integers, Sequences, FiniteSets, TLC

VARIABLES
    s,          \* from_str: the input string
    pc,         \* position of the caller in MagnetUri's API
    args,       \* from_str: the query portion handed to the decoder
    pairs,      \* from_str: the decoded (key, value) pairs
    fields,     \* from_str: the fields collected so far
    result,     \* from_str: the returned Result
    uri,        \* the MagnetUri object, once one exists
    topicRet,   \* what MagnetUri::topic returned
    key,        \* Field::new: key argument
    value,      \* Field::new: value argument
    field,      \* Field::new: returned Result
    topic_s,    \* Topic::from_str: the input string
    topic       \* Topic::from_str: returned Result

vars == <<s, pc, args, pairs, fields, result, uri, topicRet,
          key, value, field, topic_s, topic>>

-----------------------------------------------------------------------------
(* Bounds of the explored input space.                                     *)

\* Topic inputs have at most this many ':'-separated segments after the head.
MaxSegs == 4

\* Field keys are all strings over KeyChars of at most this length (and a
\* few longer named ones); `xl` values likewise over XlChars.
MaxKeyLen == 2
MaxXlLen == 2

\* A query string has at most this many '&'-separated pieces.
MaxPieces == 2

\* MagnetUri::from_fields is given at most this many fields.
MaxFields == 2

-----------------------------------------------------------------------------
(* Rust values.                                                            *)

Ok(v) == [ok |-> TRUE, val |-> v]
Err(e) == [ok |-> FALSE, err |-> e]
\* A Result or Option slot nothing has been returned into yet.
Pending == [pending |-> TRUE]
None == [some |-> FALSE]
Some(v) == [some |-> TRUE, val |-> v]

\* enum Error
InvalidScheme == [tag |-> "InvalidScheme"]
InvalidField(k, v) == [tag |-> "InvalidField", key |-> k, value |-> v]
InvalidTopic(d) == [tag |-> "InvalidTopic", diag |-> d]
UrlEncode(d) == [tag |-> "UrlEncode", diag |-> d]

\* enum Topic: every variant carries one string.
TopicOf(variant, v) == [tag |-> variant, hash |-> v]

\* enum Field
StringField(variant, v) == [tag |-> variant, value |-> v]
Extension(k, v) == [tag |-> "Extension", key |-> k, value |-> v]
Unknown(k, v) == [tag |-> "Unknown", key |-> k, value |-> v]
ExactTopic(t) == [tag |-> "ExactTopic", topic |-> t]
Length(n) == [tag |-> "Length", len |-> n]

-----------------------------------------------------------------------------
(* str primitives.                                                         *)

\* str::starts_with
starts_with(str, pat) ==
    /\ Len(str) >= Len(pat)
    /\ SubSeq(str, 1, Len(pat)) = pat

\* str::split(':'): the segments between the separators, at least one.
RECURSIVE split(_, _)
split(str, sep) ==
    IF \E i \in 1..Len(str) : str[i] = sep
    THEN LET i == CHOOSE i \in 1..Len(str) :
                      /\ str[i] = sep
                      /\ \A j \in 1..(i - 1) : str[j] # sep
         IN <<SubSeq(str, 1, i - 1)>> \o split(SubSeq(str, i + 1, Len(str)), sep)
    ELSE <<str>>

\* Iterator::skip(n) followed by collect
skip(seq, n) == SubSeq(seq, n + 1, Len(seq))

\* str::trim_start_matches: the pattern is removed from the start for as
\* long as the string starts with it.
RECURSIVE trim_start_matches(_, _)
trim_start_matches(str, pat) ==
    IF pat # <<>> /\ starts_with(str, pat)
    THEN trim_start_matches(SubSeq(str, Len(pat) + 1, Len(str)), pat)
    ELSE str

-----------------------------------------------------------------------------
(* Topic::from_str                                                         *)

\* A 2-segment match that reports the whole topic, as the other arms do.
TopicNamespace_WholeDiag(ns, v, whole) ==
    IF ns \in {<<"a","i","c","h">>, <<"b","i","t","p","r","i","n","t">>, <<"b","t","i","h">>, <<"e","d","2","k">>, <<"k","z","h","a","s","h">>, <<"m","d","5">>, <<"s","h","a","1">>}
    THEN Ok(TopicOf(CASE ns = <<"a","i","c","h">> -> "AICH" [] ns = <<"b","i","t","p","r","i","n","t">> -> "BitPrint"
                      [] ns = <<"b","t","i","h">> -> "BitTorrent" [] ns = <<"e","d","2","k">> -> "ED2K"
                      [] ns = <<"k","z","h","a","s","h">> -> "Kazaa" [] ns = <<"m","d","5">> -> "MD5"
                      [] OTHER -> "SHA1", v))
    ELSE Err(InvalidTopic(whole))

\* The 2-segment match of Topic::from_str (ns, v: the two segments; whole:
\* the string being parsed, which this arm does not report).
TopicNamespace(ns, v, whole) ==
    CASE ns = <<"a","i","c","h">> -> Ok(TopicOf("AICH", v))
      [] ns = <<"b","i","t","p","r","i","n","t">> -> Ok(TopicOf("BitPrint", v))
      [] ns = <<"b","t","i","h">> -> Ok(TopicOf("BitTorrent", v))
      [] ns = <<"e","d","2","k">> -> Ok(TopicOf("ED2K", v))
      [] ns = <<"k","z","h","a","s","h">> -> Ok(TopicOf("Kazaa", v))
      [] ns = <<"m","d","5">> -> Ok(TopicOf("MD5", v))
      [] ns = <<"s","h","a","1">> -> Ok(TopicOf("SHA1", v))
      [] OTHER -> Err(InvalidTopic(ns))

\* A 3-segment arm that accepts on either test alone.
TopicTigerTree_Either(first, second, v, whole) ==
    IF first = <<"t","r","e","e">> \/ second = <<"t","i","g","e","r">>
    THEN Ok(TopicOf("TTHash", v))
    ELSE Err(InvalidTopic(whole))

\* The 3-segment arm of Topic::from_str.
TopicTigerTree(first, second, v, whole) ==
    IF first = <<"t","r","e","e">> /\ second = <<"t","i","g","e","r">>
    THEN Ok(TopicOf("TTHash", v))
    ELSE Err(InvalidTopic(whole))

Topic_from_str(str) ==
    IF ~starts_with(str, <<"u","r","n",":">>)
    THEN Err(InvalidTopic(str))
    ELSE LET a == skip(split(str, ":"), 1)
         IN IF a = <<>>
            THEN Err(InvalidTopic(str))
            ELSE CASE Len(a) = 2 -> TopicNamespace(a[1], a[2], str)
                   [] Len(a) = 3 -> TopicTigerTree(a[1], a[2], a[3], str)
                   [] OTHER -> Err(InvalidTopic(str))

-----------------------------------------------------------------------------
(* Inputs of Topic::from_str: a head and up to MaxSegs segments, joined by *)
(* ':'.                                                                    *)

RECURSIVE Join(_, _)
Join(segs, sep) ==
    IF segs = <<>> THEN <<>>
    ELSE IF Len(segs) = 1 THEN segs[1]
    ELSE segs[1] \o <<sep>> \o Join(Tail(segs), sep)

TopicHeads == {<<"u","r","n">>, <<"U","R","N">>, <<"n","o","t","a","u","r","n">>, <<>>, <<"u","r","n","x">>}

KnownNamespaces ==
    {<<"a","i","c","h">>, <<"b","i","t","p","r","i","n","t">>, <<"b","t","i","h">>, <<"e","d","2","k">>, <<"k","z","h","a","s","h">>, <<"m","d","5">>, <<"s","h","a","1">>}

\* What the first two segments are drawn from.
LeadSegs == KnownNamespaces \cup
    {<<"t","r","e","e">>, <<"t","i","g","e","r">>, <<"o","t","h","e","r">>, <<"B","T","I","H">>, <<>>, <<"A","B","C","D","E","F">>, <<"x">>}

\* What the later segments are drawn from.
RestSegs == {<<>>, <<"X">>, <<"t","i","g","e","r">>}

Min(a, b) == IF a < b THEN a ELSE b
Max(a, b) == IF a > b THEN a ELSE b

SegLists ==
    UNION { { l \o r : l \in [1..Min(n, 2) -> LeadSegs],
                       r \in [1..Max(n - 2, 0) -> RestSegs] } : n \in 0..MaxSegs }

TopicInputs == { Join(<<h>> \o l, ":") : h \in TopicHeads, l \in SegLists }

-----------------------------------------------------------------------------
(* The parts of the state each operation leaves alone.                     *)

IdleParse ==
    /\ s = <<>> /\ pc = "idle" /\ args = <<>> /\ pairs = <<>> /\ fields = <<>>
    /\ result = Pending /\ uri = Pending /\ topicRet = Pending
IdleField == key = <<>> /\ value = <<>> /\ field = Pending
IdleTopic == topic_s = <<>> /\ topic = Pending

parseVars == <<s, pc, args, pairs, fields, result, uri, topicRet>>
fieldVars == <<key, value, field>>
topicVars == <<topic_s, topic>>

-----------------------------------------------------------------------------
(* u64 and str::parse::<u64>.  TLC's integers are narrower than 64 bits,   *)
(* so a u64 is kept as its limbs of 16 bits, least significant             *)
(* first; arithmetic on it is checked, as in the parser.                   *)

U64Bits == 64
LimbBase == 2^16
NumLimbs == U64Bits \div 16

U64Zero == [i \in 1..NumLimbs |-> 0]

\* x * m + a on limbs, for small m and a: [limbs, carry out of the top limb].
RECURSIVE MulAddFrom(_, _, _, _)
MulAddFrom(x, m, carry, i) ==
    IF i > NumLimbs THEN [limbs |-> <<>>, carry |-> carry]
    ELSE LET t == x[i] * m + carry
             rest == MulAddFrom(x, m, t \div LimbBase, i + 1)
         IN [limbs |-> <<t % LimbBase>> \o rest.limbs, carry |-> rest.carry]

\* u64::checked_mul(m) followed by u64::checked_add(a): None on overflow.
checked_mul_add(x, m, a) ==
    LET mul == MulAddFrom(x, m, 0, 1)
    IN IF mul.carry # 0 THEN None
       ELSE LET add == MulAddFrom(mul.limbs, 1, a, 1)
            IN IF add.carry # 0 THEN None ELSE Some(add.limbs)

DecimalDigits == <<"0","1","2","3","4","5","6","7","8","9">>
IsDigit(c) == \E i \in 1..Len(DecimalDigits) : DecimalDigits[i] = c
\* char::to_digit(10)
to_digit(c) == (CHOOSE i \in 1..Len(DecimalDigits) : DecimalDigits[i] = c) - 1

\* The digit loop of the integer parser: acc * 10 + digit, checked.
RECURSIVE ParseDigits(_, _)
ParseDigits(digits, acc) ==
    IF digits = <<>> THEN Ok(acc)
    ELSE IF ~IsDigit(Head(digits)) THEN Err("InvalidDigit")
    ELSE LET next == checked_mul_add(acc, 10, to_digit(Head(digits)))
         IN IF next.some THEN ParseDigits(Tail(digits), next.val)
            ELSE Err("PosOverflow")

\* str::parse::<u64>: an optional '+', then one or more decimal digits; a
\* '-' is not a sign for an unsigned type and fails as a digit.
parse_u64(src) ==
    IF src = <<>> THEN Err("Empty")
    ELSE IF src = <<"+">> \/ src = <<"-">> THEN Err("InvalidDigit")
    ELSE ParseDigits(IF Head(src) = "+" THEN Tail(src) ELSE src, U64Zero)

-----------------------------------------------------------------------------
(* Field::new and Field::from_pair                                         *)

\* A default arm that tests for `x` alone.
FieldDefaultArm_PrefixX(k, v) ==
    IF starts_with(k, <<"x">>)
    THEN Ok(Extension(k, v))
    ELSE Ok(Unknown(k, v))

\* The `_` arm of Field::new.
FieldDefaultArm(k, v) ==
    IF starts_with(k, <<"x",".">>)
    THEN Ok(Extension(k, v))
    ELSE Ok(Unknown(k, v))

\* An `xl` arm that keeps what was parsed when the digits overflow, that is
\* the value modulo 2^64.
RECURSIVE WrappingDigits(_, _)
WrappingDigits(digits, acc) ==
    IF digits = <<>> THEN Ok(acc)
    ELSE IF ~IsDigit(Head(digits)) THEN Err("InvalidDigit")
    ELSE WrappingDigits(Tail(digits),
                        MulAddFrom(acc, 10, to_digit(Head(digits)), 1).limbs)
FieldLengthArm_Wrapping(k, v) ==
    LET len == IF v = <<>> \/ v = <<"+">> \/ v = <<"-">> THEN Err("Empty")
               ELSE WrappingDigits(IF Head(v) = "+" THEN Tail(v) ELSE v, U64Zero)
    IN IF len.ok THEN Ok(Length(len.val)) ELSE Err(InvalidField(k, v))

\* The `xl` arm of Field::new.
FieldLengthArm(k, v) ==
    LET len == parse_u64(v)
    IN IF len.ok THEN Ok(Length(len.val)) ELSE Err(InvalidField(k, v))

\* The `xt` arm of Field::new: `?` returns the topic parser's error as is.
FieldTopicArm(k, v) ==
    LET t == Topic_from_str(v)
    IN IF t.ok THEN Ok(ExactTopic(t.val)) ELSE t

Field_new(k, v) ==
    CASE k = <<"a","s">> -> Ok(StringField("AcceptableSource", v))
      [] k = <<"d","n">> -> Ok(StringField("DisplayName", v))
      [] k = <<"k","t">> -> Ok(StringField("KeywordTopic", v))
      [] k = <<"m","t">> -> Ok(StringField("ManifestTopic", v))
      [] k = <<"t","r">> -> Ok(StringField("Tracker", v))
      [] k = <<"x","l">> -> FieldLengthArm(k, v)
      [] k = <<"x","s">> -> Ok(StringField("Source", v))
      [] k = <<"x","t">> -> FieldTopicArm(k, v)
      [] OTHER -> FieldDefaultArm(k, v)

Field_from_pair(pair) == Field_new(pair[1], pair[2])

-----------------------------------------------------------------------------
(* Inputs of Field::new.                                                   *)

\* All strings over a set of characters, of a length up to n.
StringsUpTo(chars, n) == UNION { [1..m -> chars] : m \in 0..n }

KeyChars == {"a", "s", "d", "n", "k", "t", "m", "r", "x", "l", ".", "X", "T", "D"}
Keys == StringsUpTo(KeyChars, MaxKeyLen) \cup
    {<<"x",".","a">>, <<"x",".","m","y","a","p","p">>, <<"z","z">>, <<"x","l","l">>, <<"x","t","x">>, <<"d","n","x">>, <<"x","s",".">>, <<"m","a","g","n","e","t",":","?","d","n">>}

GenericValues ==
    {<<>>, <<"a">>, <<"N","a","m","e">>, <<"1","2","3","4","5">>, <<"a","b","c">>, <<"u","r","n",":","b","t","i","h",":","A","B","C","D","E","F">>, <<"n","o","t","a","u","r","n">>,
     <<"h","t","t","p",":","/","/","e","x","a","m","p","l","e",".","t","r","a","c","k","e","r",".","c","o","m",":","7","7","7","7","/","a","n","n","o","u","n","c","e">>, <<"a"," ","b","&","c","=","d">>}

U64MaxDecimal == <<"1","8","4","4","6","7","4","4","0","7","3","7","0","9","5","5","1","6","1","5">>

XlChars == {"0", "1", "9", "+", "-", "a", " "}
XlValues == StringsUpTo(XlChars, MaxXlLen) \cup
    {<<"1","2","3","4","5">>, <<"a","b","c">>, <<"0","0","7">>, <<"+","5">>, <<"-","0">>, <<"1","2","a">>, <<"1",".","5">>, <<"0","x","1","0">>,
     <<"6","5","5","3","5">>, <<"6","5","5","3","6">>, <<"4","2","9","4","9","6","7","2","9","5">>, <<"4","2","9","4","9","6","7","2","9","6">>,
     <<"1","8","4","4","6","7","4","4","0","7","3","7","0","9","5","5","1","6","1","4">>, U64MaxDecimal, <<"1","8","4","4","6","7","4","4","0","7","3","7","0","9","5","5","1","6","1","6">>,
     <<"1","8","4","4","6","7","4","4","0","7","3","7","0","9","5","5","1","6","2","0">>, <<"1","8","4","4","6","7","4","4","0","7","3","7","0","9","5","5","1","6","1","5","0">>,
     <<"9","9","9","9","9","9","9","9","9","9","9","9","9","9","9","9","9","9","9","9">>, <<"3","6","8","9","3","4","8","8","1","4","7","4","1","9","1","0","3","2","3","1">>,
     <<"0","0","0","0","1","8","4","4","6","7","4","4","0","7","3","7","0","9","5","5","1","6","1","5">>, <<"0","0","0","0","1","8","4","4","6","7","4","4","0","7","3","7","0","9","5","5","1","6","1","6">>,
     <<"+","1","8","4","4","6","7","4","4","0","7","3","7","0","9","5","5","1","6","1","5">>, <<"+","1","8","4","4","6","7","4","4","0","7","3","7","0","9","5","5","1","6","1","6">>,
     <<"-","1","8","4","4","6","7","4","4","0","7","3","7","0","9","5","5","1","6","1","5">>}

FieldInputs ==
    (Keys \X GenericValues) \cup ({<<"x","l">>} \X XlValues) \cup ({<<"x","t">>} \X TopicInputs)

-----------------------------------------------------------------------------
(* serde_urlencoded::from_str::<Vec<(String, String)>>, the decoder that   *)
(* from_str calls.  The crate hands the string to form_urlencoded::parse:  *)
(* the pieces between '&', the empty ones skipped, each cut at its first   *)
(* '=' into a name and a value (an empty value without '='), and in both   *)
(* every '+' made a space and every %XX escape made the byte it names; a   *)
(* '%' that two hex digits do not follow stays as it is.  Into a vector of *)
(* string pairs this never fails.                                          *)

\* The printable ASCII characters, from the space (code 32) on; the
\* backquote (code 96), which a TLA+ string cannot hold, is written as its
\* code.
Printable == <<" ","!","\"","#","$","%","&","'","(",")","*","+",",","-",".","/","0","1","2","3","4","5","6","7","8","9",":",";","<","=",">","?","@","A","B","C","D","E","F","G","H","I","J","K","L","M","N","O","P","Q","R","S","T","U","V","W","X","Y","Z","[","\\","]","^","_","\\x96","a","b","c","d","e","f","g","h","i","j","k","l","m","n","o","p","q","r","s","t","u","v","w","x","y","z","{","|","}","~">>

\* The character of a byte below 128; a byte outside the printable range is
\* written as its code (the inputs explored hold no escape of 0x80 or more,
\* which the lossy UTF-8 conversion would have to handle).
Chr(b) ==
    IF b >= 32 /\ b < 32 + Len(Printable)
    THEN Printable[b - 32 + 1]
    ELSE "\\x" \o ToString(b)

HexDigits == <<"0","1","2","3","4","5","6","7","8","9","a","b","c","d","e","f","A","B","C","D","E","F">>
IsHex(c) == \E i \in 1..Len(HexDigits) : HexDigits[i] = c
HexValue(c) ==
    LET i == CHOOSE j \in 1..Len(HexDigits) : HexDigits[j] = c
    IN IF i <= 16 THEN i - 1 ELSE i - 7

\* replace_plus
replace_plus(str) == [i \in 1..Len(str) |-> IF str[i] = "+" THEN " " ELSE str[i]]

\* percent_decode
RECURSIVE percent_decode(_)
percent_decode(str) ==
    IF str = <<>> THEN <<>>
    ELSE IF Head(str) = "%" /\ Len(str) >= 3 /\ IsHex(str[2]) /\ IsHex(str[3])
    THEN <<Chr(16 * HexValue(str[2]) + HexValue(str[3]))>>
             \o percent_decode(SubSeq(str, 4, Len(str)))
    ELSE <<Head(str)>> \o percent_decode(Tail(str))

\* the decode of form_urlencoded of one name or value
decode(str) == percent_decode(replace_plus(str))

\* One non-empty piece, cut at its first '='.
decode_piece(piece) ==
    IF \E i \in 1..Len(piece) : piece[i] = "="
    THEN LET i == CHOOSE i \in 1..Len(piece) :
                      /\ piece[i] = "="
                      /\ \A j \in 1..(i - 1) : piece[j] # "="
         IN <<decode(SubSeq(piece, 1, i - 1)), decode(SubSeq(piece, i + 1, Len(piece)))>>
    ELSE <<decode(piece), <<>>>>

\* form_urlencoded::parse, collected
form_urlencoded_parse(str) ==
    LET pieces == SelectSeq(split(str, "&"), LAMBDA p : p # <<>>)
    IN [i \in 1..Len(pieces) |-> decode_piece(pieces[i])]

serde_urlencoded_from_str(str) == Ok(form_urlencoded_parse(str))

-----------------------------------------------------------------------------
(* MagnetUri                                                               *)

MagnetUri_from_fields(fl) == [fields |-> fl]

\* An accessor that returns the topic of the first ExactTopic field.
MagnetUri_topic_FirstExact(self) ==
    IF \E i \in 1..Len(self.fields) : self.fields[i].tag = "ExactTopic"
    THEN Some(self.fields[CHOOSE i \in 1..Len(self.fields) :
                   /\ self.fields[i].tag = "ExactTopic"
                   /\ \A j \in 1..(i - 1) : self.fields[j].tag # "ExactTopic"].topic)
    ELSE None

MagnetUri_topic(self) == None

\* A gate that tests the scheme without its '?'.
SchemeOk_NoQuestionMark(str) == starts_with(str, <<"m","a","g","n","e","t",":">>)

\* The scheme test of from_str.
SchemeOk(str) == starts_with(str, <<"m","a","g","n","e","t",":","?">>)

\* A collect that leaves out the pairs that fail.
RECURSIVE CollectFields_Lenient(_)
CollectFields_Lenient(ps) ==
    IF ps = <<>> THEN Ok(<<>>)
    ELSE LET f == Field_from_pair(Head(ps))
             rest == CollectFields_Lenient(Tail(ps))
         IN IF f.ok THEN Ok(<<f.val>> \o rest.val) ELSE rest

\* A collect that builds the vector back to front.
RECURSIVE CollectFields_Reversed(_)
CollectFields_Reversed(ps) ==
    IF ps = <<>> THEN Ok(<<>>)
    ELSE LET f == Field_from_pair(Head(ps))
         IN IF ~f.ok THEN f
            ELSE LET rest == CollectFields_Reversed(Tail(ps))
                 IN IF rest.ok THEN Ok(rest.val \o <<f.val>>) ELSE rest

\* A collect that classifies every pair and reports the last failure.
RECURSIVE CollectFields_LastError(_)
CollectFields_LastError(ps) ==
    IF ps = <<>> THEN Ok(<<>>)
    ELSE LET f == Field_from_pair(Head(ps))
             rest == CollectFields_LastError(Tail(ps))
         IN IF ~rest.ok THEN rest
            ELSE IF ~f.ok THEN f
            ELSE Ok(<<f.val>> \o rest.val)

\* .iter().map(Field::from_pair).collect::<Result<Vec<_>, _>>(): the fields
\* in order, or the first error, at which the iteration stops.
RECURSIVE CollectFields(_)
CollectFields(ps) ==
    IF ps = <<>> THEN Ok(<<>>)
    ELSE LET f == Field_from_pair(Head(ps))
         IN IF ~f.ok THEN f
            ELSE LET rest == CollectFields(Tail(ps))
                 IN IF rest.ok THEN Ok(<<f.val>> \o rest.val) ELSE rest

-----------------------------------------------------------------------------
(* Inputs of MagnetUri::from_str and MagnetUri::from_fields.               *)

\* The input of the test parse_btih, and the end-to-end input of the
\* specification (its tracker escapes well-formed).
TestInput == <<"m","a","g","n","e","t",":","?","x","t","=","u","r","n",":","b","t","i","h",":","9","9","a","b","8","7","b","e","3","8","9","e","5","4","8","7","f","f","6","2","6","1","6","2","a","5","a","5","9","8","8","c","e","6","9","6","5","7","4","a","&","d","n","=","N","a","m","e","&","t","r","=","h","t","t","p","%","3","A","%","2","F","%","e","x","a","m","p","l","e",".","t","r","a","c","k","e","r",".","c","o","m","%","3","A","7","7","7","7","%","2","F","a","n","n","o","u","n","c","e">>
EndToEndInput == <<"m","a","g","n","e","t",":","?","x","t","=","u","r","n",":","b","t","i","h",":","9","9","a","b","8","7","b","e","3","8","9","e","5","4","8","7","f","f","6","2","6","1","6","2","a","5","a","5","9","8","8","c","e","6","9","6","5","7","4","a","&","d","n","=","N","a","m","e","&","t","r","=","h","t","t","p","%","3","A","%","2","F","%","2","F","e","x","a","m","p","l","e",".","t","r","a","c","k","e","r",".","c","o","m","%","3","A","7","7","7","7","%","2","F","a","n","n","o","u","n","c","e">>

Prefixes ==
    {<<"m","a","g","n","e","t",":","?">>, <<"m","a","g","n","e","t",":","?","m","a","g","n","e","t",":","?">>, <<"m","a","g","n","e","t",":">>, <<>>, <<"M","A","G","N","E","T",":","?">>, <<"m","a","g","n","e","t","?",":">>,
     <<"x","m","a","g","n","e","t",":","?">>}

Pieces ==
    {<<"d","n","=","N","a","m","e">>, <<"t","r","=","a">>, <<"t","r","=","b">>, <<"x","l","=","1","2","3","4","5">>, <<"x","l","=","a","b","c">>, <<"x","l","=","-","1">>,
     <<"x","t","=","u","r","n",":","b","t","i","h",":","A","B","C","D","E","F">>, <<"x","t","=","b","a","d">>, <<"x","t","=","u","r","n",":","t","r","e","e",":","o","t","h","e","r",":","X">>, <<"x",".","a","=","1">>,
     <<"z","z","=","f","o","o">>, <<>>, <<"d","n">>, <<"d","n","=","a","%","3","A","b","+","c","%","z","z">>, <<"x","l","=","%","3","1","%","3","2">>}

Queries ==
    { Join(q, "&") : q \in UNION { [1..n -> Pieces] : n \in 0..MaxPieces } }

Inputs ==
    { p \o q : p \in Prefixes, q \in Queries } \cup {TestInput, EndToEndInput}

SampleFields ==
    { StringField("DisplayName", <<"N","a","m","e">>), StringField("Tracker", <<"a">>),
      ExactTopic(TopicOf("BitTorrent", <<"A","B","C","D","E","F">>)), ExactTopic(TopicOf("TTHash", <<"X">>)),
      Length(U64Zero), Unknown(<<"z","z">>, <<"f","o","o">>) }

FieldLists == UNION { [1..n -> SampleFields] : n \in 0..MaxFields }

-----------------------------------------------------------------------------
(* Specification of MagnetUri: a caller either parses a string with        *)
(* from_str, whose stages are the scheme gate, the decoder and the         *)
(* classification, or builds the object with from_fields; on the object it *)
(* then calls topic().                                                     *)

Init ==
    /\ \/ pc = "from_str" /\ s \in Inputs
       \/ pc = "from_fields" /\ s = <<>>
    /\ args = <<>> /\ pairs = <<>> /\ fields = <<>>
    /\ result = Pending /\ uri = Pending /\ topicRet = Pending
    /\ IdleField /\ IdleTopic

\* from_str, lines 31-37: the scheme gate.
Gate ==
    /\ pc = "from_str"
    /\ IF ~SchemeOk(s)
       THEN /\ result' = Err(InvalidScheme)
            /\ pc' = "returned"
            /\ args' = args
       ELSE /\ args' = trim_start_matches(s, <<"m","a","g","n","e","t",":","?">>)
            /\ pc' = "decode"
            /\ result' = result
    /\ UNCHANGED <<s, pairs, fields, uri, topicRet, fieldVars, topicVars>>

\* from_str, lines 39-41: the decoder; `?` returns its error as UrlEncode.
Decode ==
    /\ pc = "decode"
    /\ LET d == serde_urlencoded_from_str(args)
       IN IF d.ok
          THEN /\ pairs' = d.val
               /\ pc' = "classify"
               /\ result' = result
          ELSE /\ result' = Err(UrlEncode(d.err))
               /\ pc' = "returned"
               /\ pairs' = pairs
    /\ UNCHANGED <<s, args, fields, uri, topicRet, fieldVars, topicVars>>

\* from_str, lines 43-49: the classification and the result.
Classify ==
    /\ pc = "classify"
    /\ LET c == CollectFields(pairs)
       IN IF c.ok
          THEN /\ fields' = c.val
               /\ uri' = MagnetUri_from_fields(c.val)
               /\ result' = Ok(MagnetUri_from_fields(c.val))
          ELSE /\ result' = c
               /\ UNCHANGED <<fields, uri>>
    /\ pc' = "returned"
    /\ UNCHANGED <<s, args, pairs, topicRet, fieldVars, topicVars>>

\* MagnetUri::from_fields, called directly.
FromFields ==
    /\ pc = "from_fields"
    /\ \E fl \in FieldLists :
          /\ fields' = fl
          /\ uri' = MagnetUri_from_fields(fl)
    /\ pc' = "built"
    /\ UNCHANGED <<s, args, pairs, result, topicRet, fieldVars, topicVars>>

\* MagnetUri::topic(&self) on the object a caller holds.
CallTopic ==
    /\ uri # Pending
    /\ topicRet = Pending
    /\ topicRet' = MagnetUri_topic(uri)
    /\ UNCHANGED <<s, pc, args, pairs, fields, result, uri, fieldVars, topicVars>>

Next == Gate \/ Decode \/ Classify \/ FromFields \/ CallTopic

Spec == Init /\ [][Next]_vars

(* The scheme prefix, stated over the characters of the input.             *)

Scheme == <<"m","a","g","n","e","t",":","?">>
HasSchemePrefix(str) ==
    /\ Len(str) >= Len(Scheme)
    /\ \A i \in 1..Len(Scheme) : str[i] = Scheme[i]
\* What follows the first occurrence of the prefix.
AfterScheme(str) == [i \in 1..(Len(str) - Len(Scheme)) |-> str[i + Len(Scheme)]]

\* The indices of the pairs that Field::new rejects.
Failing(ps) == { i \in 1..Len(ps) : ~Field_new(ps[i][1], ps[i][2]).ok }

\* C1: from_str fails with InvalidScheme exactly on the inputs that do not
\* start with the case-sensitive literal magnet:? .
C1_InvalidScheme ==
    pc = "returned" => (result = Err(InvalidScheme) <=> ~HasSchemePrefix(s))

\* C1 witness: an input with the scheme in upper case was refused with
\* InvalidScheme.
C1_Witness ==
    /\ pc = "returned" /\ result = Err(InvalidScheme)
    /\ s = <<"M","A","G","N","E","T",":","?","d","n","=","N","a","m","e">>

\* C2: from_str returns Ok exactly when the input has the scheme prefix, the
\* decoder accepts the query handed to it and every decoded pair classifies;
\* otherwise it returns an Error and no MagnetUri exists; the input of the
\* test parse_btih parses Ok.
C2_OkIffAllStages ==
    pc = "returned" =>
        /\ result.ok <=>
              /\ HasSchemePrefix(s)
              /\ serde_urlencoded_from_str(args).ok
              /\ Failing(serde_urlencoded_from_str(args).val) = {}
        /\ ~result.ok =>
              /\ result.err.tag \in {"InvalidScheme", "UrlEncode", "InvalidField", "InvalidTopic"}
              /\ DOMAIN result = {"ok", "err"}
              /\ uri = Pending
        /\ s = TestInput => result.ok

\* C2 witness: the input of parse_btih, whose tracker holds a malformed
\* escape, was parsed into its three fields.
C2_Witness ==
    /\ pc = "returned" /\ s = TestInput
    /\ result.ok /\ Len(result.val.fields) = 3

\* C3: on a successful parse the fields are, in number and in order, the
\* classifications of the decoded pairs, duplicate keys included, and the
\* empty query gives Ok with no fields.
C3_FieldsFollowPairs ==
    (pc = "returned" /\ result.ok) =>
        /\ pairs = serde_urlencoded_from_str(args).val
        /\ Len(result.val.fields) = Len(pairs)
        /\ \A i \in 1..Len(pairs) :
              Ok(result.val.fields[i]) = Field_new(pairs[i][1], pairs[i][2])
        /\ s = Scheme => result = Ok([fields |-> <<>>])

\* C3 witness: two trackers were kept in their order of appearance.
C3_Witness ==
    /\ s = <<"m","a","g","n","e","t",":","?","t","r","=","a","&","t","r","=","b">>
    /\ result = Ok([fields |-> <<StringField("Tracker", <<"a">>),
                                 StringField("Tracker", <<"b">>)>>])

\* C8: the scheme gate hands the decoder exactly what follows the one
\* leading magnet:? of the input.
C8_StripsOnePrefix ==
    (pc \in {"decode", "classify", "returned"} /\ HasSchemePrefix(s)) =>
        args = AfterScheme(s)

\* C9: the error returned is that of the earliest failing stage:
\* InvalidScheme before anything else, then the decoder's error passed on
\* as UrlEncode, then the error of the first pair, in decoded order, that
\* fails classification.
C9_EarliestError ==
    pc = "returned" =>
        LET d == serde_urlencoded_from_str(args)
        IN /\ ~HasSchemePrefix(s) => result = Err(InvalidScheme)
           /\ (HasSchemePrefix(s) /\ ~d.ok) => result = Err(UrlEncode(d.err))
           /\ (HasSchemePrefix(s) /\ d.ok /\ Failing(d.val) # {}) =>
                 LET first == CHOOSE i \in Failing(d.val) :
                                  \A j \in Failing(d.val) : i <= j
                 IN result = Field_new(d.val[first][1], d.val[first][2])
           /\ s = <<"m","a","g","n","e","t",":","?","x","l","=","a","b","c","&","x","t","=","b","a","d">> =>
                 result = Err(InvalidField(<<"x","l">>, <<"a","b","c">>))
           /\ s = <<"m","a","g","n","e","t",":","?","x","t","=","b","a","d","&","x","l","=","a","b","c">> => result = Err(InvalidTopic(<<"b","a","d">>))

\* C9 witness: an input with two failing pairs was refused with the error of
\* the first.
C9_Witness ==
    /\ pc = "returned"
    /\ s = <<"m","a","g","n","e","t",":","?","x","l","=","a","b","c","&","x","t","=","b","a","d">> /\ result = Err(InvalidField(<<"x","l">>, <<"a","b","c">>))

\* C10: topic() returns None for every MagnetUri, parsed or built, also one
\* that holds ExactTopic fields, and leaves the fields as they were.
C10_TopicIsNone ==
    topicRet # Pending =>
        /\ topicRet = None
        /\ uri = [fields |-> fields]
        /\ pc = "returned" => result = Ok(uri)

\* C10 witness: topic() was called on an object holding an ExactTopic field.
C10_Witness ==
    /\ topicRet # Pending
    /\ \E i \in 1..Len(uri.fields) : uri.fields[i].tag = "ExactTopic"

-----------------------------------------------------------------------------
(* Specification of Field::new as a pure function.                         *)

InitField ==
    /\ \E kv \in FieldInputs : key = kv[1] /\ value = kv[2]
    /\ field = Pending
    /\ IdleParse /\ IdleTopic

CallFieldNew ==
    /\ field = Pending
    /\ field' = Field_new(key, value)
    /\ UNCHANGED <<key, value, parseVars, topicVars>>

SpecField == InitField /\ [][CallFieldNew]_vars

(* The classification table, stated over the characters of the key.        *)

VariantOfKey ==
    { <<<<"a","s">>, "AcceptableSource">>, <<<<"d","n">>, "DisplayName">>,
      <<<<"k","t">>, "KeywordTopic">>, <<<<"m","t">>, "ManifestTopic">>,
      <<<<"t","r">>, "Tracker">>, <<<<"x","s">>, "Source">> }

HasExtensionPrefix(k) == Len(k) >= 2 /\ k[1] = "x" /\ k[2] = "."

\* C4: on every key other than `xl` and `xt`, Field::new returns Ok for any
\* value: the six opaque keys give their variant carrying the value, a key
\* starting with `x.` gives Extension(key, value), any other key gives
\* Unknown(key, value); key and value are carried untransformed.
C4_FieldTotal ==
    (field # Pending /\ key # <<"x","l">> /\ key # <<"x","t">>) =>
        /\ field.ok
        /\ IF \E kv \in VariantOfKey : kv[1] = key
           THEN /\ field.val.tag = (CHOOSE kv \in VariantOfKey : kv[1] = key)[2]
                /\ field.val.value = value
           ELSE /\ field.val.tag =
                     IF HasExtensionPrefix(key) THEN "Extension" ELSE "Unknown"
                /\ field.val.key = key
                /\ field.val.value = value

\* C4 witness: the key `x.` itself was classified as an Extension.
C4_Witness ==
    /\ key = <<"x",".">> /\ value = <<"N","a","m","e">>
    /\ field = Ok(Extension(<<"x",".">>, <<"N","a","m","e">>))

(* Decimal numerals, stated over digit strings: no arithmetic on limbs.    *)

RECURSIVE StripZeros(_)
StripZeros(d) ==
    IF Len(d) > 1 /\ Head(d) = "0" THEN StripZeros(Tail(d)) ELSE d

\* The digits of a numeral: an optional '+' then at least one digit.
NumeralDigits(v) == IF v # <<>> /\ Head(v) = "+" THEN Tail(v) ELSE v
IsNumeral(v) ==
    /\ NumeralDigits(v) # <<>>
    /\ \A i \in 1..Len(NumeralDigits(v)) : IsDigit(NumeralDigits(v)[i])

\* a <= b for digit strings without leading zeros.
RECURSIVE LexLeq(_, _)
LexLeq(a, b) ==
    IF a = <<>> THEN TRUE
    ELSE IF Head(a) # Head(b) THEN to_digit(Head(a)) < to_digit(Head(b))
    ELSE LexLeq(Tail(a), Tail(b))
DecimalLeq(a, b) == Len(a) < Len(b) \/ (Len(a) = Len(b) /\ LexLeq(a, b))

FitsU64(v) == IsNumeral(v) /\ DecimalLeq(StripZeros(NumeralDigits(v)), U64MaxDecimal)

\* The decimal numeral of a u64, by repeated division of its limbs by ten.
RECURSIVE DivTenFrom(_, _, _)
DivTenFrom(x, rem, i) ==
    IF i = 0 THEN [limbs |-> <<>>, rem |-> rem]
    ELSE LET cur == rem * LimbBase + x[i]
             rest == DivTenFrom(x, cur % 10, i - 1)
         IN [limbs |-> rest.limbs \o <<cur \div 10>>, rem |-> rest.rem]
RECURSIVE DecimalOf(_)
DecimalOf(x) ==
    LET d == DivTenFrom(x, 0, NumLimbs)
    IN IF d.limbs = U64Zero THEN <<DecimalDigits[d.rem + 1]>>
       ELSE DecimalOf(d.limbs) \o <<DecimalDigits[d.rem + 1]>>

\* C5: for key `xl`, Field::new returns Length(n) exactly when the value is a
\* numeral of a non-negative integer n <= 2^64 - 1, and otherwise fails with
\* InvalidField("xl", value), the value unchanged; nothing wraps modulo 2^64.
C5_LengthU64 ==
    (field # Pending /\ key = <<"x","l">>) =>
        IF FitsU64(value)
        THEN /\ field.ok
             /\ field.val.tag = "Length"
             /\ DecimalOf(field.val.len) = StripZeros(NumeralDigits(value))
        ELSE field = Err(InvalidField(<<"x","l">>, value))

\* C5 witness: 2^64 was rejected with the value unchanged.
C5_Witness ==
    /\ key = <<"x","l">> /\ value = <<"1","8","4","4","6","7","4","4","0","7","3","7","0","9","5","5","1","6","1","6">>
    /\ field = Err(InvalidField(key, value))

-----------------------------------------------------------------------------
(* Specification of Topic::from_str as a pure function.                    *)

InitTopic ==
    /\ topic_s \in TopicInputs
    /\ topic = Pending
    /\ IdleParse /\ IdleField

CallTopicFromStr ==
    /\ topic = Pending
    /\ topic' = Topic_from_str(topic_s)
    /\ UNCHANGED <<topic_s, parseVars, fieldVars>>

SpecTopic == InitTopic /\ [][CallTopicFromStr]_vars

(* The URN grammar, stated over the positions of the ':' characters.       *)

HasUrnPrefix(str) ==
    /\ Len(str) >= 4
    /\ str[1] = "u" /\ str[2] = "r" /\ str[3] = "n" /\ str[4] = ":"

\* What follows the first four characters.
AfterUrn(str) == [i \in 1..(Len(str) - 4) |-> str[i + 4]]

Colons(str) == { i \in 1..Len(str) : str[i] = ":" }

\* The text before the first ':' and after the last ':' of a string that
\* has one.
BeforeFirstColon(str) ==
    LET p == CHOOSE i \in Colons(str) : \A j \in Colons(str) : i <= j
    IN [i \in 1..(p - 1) |-> str[i]]
AfterLastColon(str) ==
    LET p == CHOOSE i \in Colons(str) : \A j \in Colons(str) : i >= j
    IN [i \in 1..(Len(str) - p) |-> str[i + p]]
\* The text between the two ':' of a string that has exactly two.
BetweenColons(str) ==
    LET p == CHOOSE i \in Colons(str) : \A j \in Colons(str) : i <= j
        q == CHOOSE i \in Colons(str) : \A j \in Colons(str) : i >= j
    IN [i \in 1..(q - p - 1) |-> str[i + p]]

VariantOfNamespace ==
    { <<<<"a","i","c","h">>, "AICH">>, <<<<"b","i","t","p","r","i","n","t">>, "BitPrint">>, <<<<"b","t","i","h">>, "BitTorrent">>,
      <<<<"e","d","2","k">>, "ED2K">>, <<<<"k","z","h","a","s","h">>, "Kazaa">>, <<<<"m","d","5">>, "MD5">>,
      <<<<"s","h","a","1">>, "SHA1">> }

\* The variant the grammar assigns to a string, or "none".
GrammarVariant(str) ==
    IF ~HasUrnPrefix(str) THEN "none"
    ELSE LET r == AfterUrn(str)
             n == Cardinality(Colons(r)) + 1
         IN IF n = 2 /\ \E nv \in VariantOfNamespace : nv[1] = BeforeFirstColon(r)
            THEN (CHOOSE nv \in VariantOfNamespace : nv[1] = BeforeFirstColon(r))[2]
            ELSE IF /\ n = 3
                    /\ BeforeFirstColon(r) = <<"t","r","e","e">>
                    /\ BetweenColons(r) = <<"t","i","g","e","r">>
            THEN "TTHash"
            ELSE "none"

\* C6: Topic::from_str returns Ok exactly when the string is `urn:` followed
\* by 2 segments with a known namespace first, or by the 3 segments
\* tree:tiger:<value>; the topic is then the namespace's variant carrying the
\* last segment unchanged, and is never Topic::Unknown.
C6_TopicGrammar ==
    topic # Pending =>
        /\ topic.ok <=> GrammarVariant(topic_s) # "none"
        /\ topic.ok =>
              /\ topic.val.tag = GrammarVariant(topic_s)
              /\ topic.val.hash = AfterLastColon(topic_s)
              /\ topic.val.tag # "Unknown"

\* C6 witness: a tree:tiger topic with an empty value segment was parsed.
C6_Witness ==
    /\ topic_s = <<"u","r","n",":","t","r","e","e",":","t","i","g","e","r",":">>
    /\ topic = Ok(TopicOf("TTHash", <<>>))

\* C7: every failure of Topic::from_str is InvalidTopic carrying the whole
\* input, except that `urn:` followed by exactly 2 segments with an unknown
\* namespace carries just that namespace segment.
C7_TopicDiagnostic ==
    (topic # Pending /\ ~topic.ok) =>
        /\ topic.err.tag = "InvalidTopic"
        /\ topic.err.diag =
              IF HasUrnPrefix(topic_s) /\ Cardinality(Colons(AfterUrn(topic_s))) = 1
              THEN BeforeFirstColon(AfterUrn(topic_s))
              ELSE topic_s

\* C7 witness: `urn::x` was rejected with the empty namespace as diagnostic.
C7_Witness ==
    /\ topic_s = <<"u","r","n",":",":","x">>
    /\ topic = Err(InvalidTopic(<<>>))

====
